---- MODULE Spec2Model ----
(***************************************************************************)
(* IssueHub frontend: the Axios client with its two interceptors, the      *)
(* session store (localStorage keys 'token' and 'user'), the browser       *)
(* location, and the AuthProvider flows (initAuth, login, signup, logout)  *)
(* together with the Login / Signup pages and the Navbar that drive them.  *)
(*                                                                         *)
(* One behaviour is the life of one loaded document.  Assigning            *)
(* window.location.href starts a navigation that replaces the document;    *)
(* until the browser commits it the scripts keep running and               *)
(* window.location.pathname keeps its value, so the model records the      *)
(* assignment in href and leaves pathname to the client-side router.       *)
(* JavaScript runs each callback to completion, so every action below is   *)
(* one callback (one interceptor run, one resumption after an await).      *)
(*                                                                         *)
(* Spec follows the client and the AuthProvider flows; ViewSpec follows    *)
(* the resource wrappers, the form handlers and the role gating of the     *)
(* IssueDetail and ProjectDetail pages on top of the same client.          *)
(***************************************************************************)
EXTENDS Integers, Sequences, FiniteSets, TLC

\* ---- bounds of the model ----
MaxCalls == 4
\* fetchIssues runs followed on one visit of the issues list
MaxFetches == 3

\* ---- values ----
NULL == "null"
Tokens == {"tokA", "tokB"}
\* what an earlier visit may have left under the 'token' key
StoredTokens == {"tokA"}
Profiles == {"alice"}
ErrStatuses == {401, 403, 500}
ErrBodies == {"detail"}
Paths == {"/login", "/signup", "/projects"}
Callers == {"LoginPage", "SignupPage"}
ResourceRequests ==
    { [method |-> "GET", path |-> "/projects"],
      [method |-> "POST", path |-> "/projects/5/members"] }

CallIds == 1..MaxCalls

\* ---- JavaScript values seen by the wrappers and the pages ----
Undefined == "undefined"
\* A parsed response body.  `json` is FALSE when there is none (data is
\* undefined); `detail` is Undefined when the body has no such field.
NoBody == [json |-> FALSE, detail |-> Undefined, content |-> ""]
Body(content, detail) == [json |-> TRUE, detail |-> detail, content |-> content]
\* v is truthy (the values here are strings or undefined)
Truthy(v) == v # Undefined /\ v # ""
\* a || b
Or(a, b) == IF Truthy(a) THEN a ELSE b

Ids == {"5", "7"}
Users == {"alice", "bob"}
Roles == {"member", "maintainer"}
Details == {Undefined, "", "Not enough permissions"}
\* the member lists a project can have: every user at most once
MemberLists ==
    { { [user |-> [id |-> u], role |-> f[u]] : u \in {x \in Users : f[x] # NULL} }
        : f \in [Users -> Roles \cup {NULL}] }

VARIABLES
    store,       \* localStorage: [token, user], NULL when the key is absent
    pathname,    \* window.location.pathname
    href,        \* last value assigned to window.location.href, NULL if none
    user,        \* AuthProvider state `user`
    loading,     \* AuthProvider state `loading`
    calls,       \* the calls made through the client, by id
    nextId,      \* id of the next call
    initPc,      \* position of initAuth
    initCall,    \* the call initAuth awaits
    loginPc,     \* position of login(), per caller
    loginCall,   \* the call login() awaits, per caller
    obtained,    \* access_token login() received in this attempt, per caller
    signupPc,    \* position of signup()
    signupCall,  \* the call signup() awaits
    pagePc,      \* position of Login.handleSubmit / Signup.handleSubmit
    view         \* the wrapper or page component under study, "none" here

clientVars == << store, pathname, href, user, loading, calls, nextId,
                 initPc, initCall, loginPc, loginCall, obtained, signupPc,
                 signupCall, pagePc >>

vars == << clientVars, view >>

\* ---- the session store (localStorage) ----
getItem(s, key) == s[key]

setItem(s, key, value) == [s EXCEPT ![key] = value]

removeItem(s, key) == [s EXCEPT ![key] = NULL]

\* ---- requests, responses, errors ----
NoHeader == << >>

Bearer(token) == << "Bearer", token >>

\* No response reached the client: error.response is undefined.
NoResponse == [received |-> FALSE, status |-> 0, data |-> ""]

Response(status, data) == [received |-> TRUE, status |-> status, data |-> data]

\* axios resolves a response whose status is 2xx and rejects every other one
\* with an error whose `response` is that response.
Is2xx(r) == r.received /\ r.status >= 200 /\ r.status < 300

AxiosError(r) == [response |-> r]

NoError == [response |-> [received |-> FALSE, status |-> -1, data |-> ""]]

\* ---- the wrappers' and the pages' view of a request ----
ViewNoResponse == [received |-> FALSE, status |-> 0, data |-> NoBody]
ViewNoError == [response |-> [received |-> FALSE, status |-> -1, data |-> NoBody]]
NoIssue == [loaded |-> FALSE, reporter |-> [id |-> NULL], project_id |-> NULL]
NoProject == [loaded |-> FALSE, members |-> {}]
NoServer == [reporter |-> [id |-> NULL], members |-> {}]
\* useState({...}) of the filters of the issues list; the numbers page and
\* page_size are written as the query string carries them
InitialFilters ==
    [ q |-> "", status |-> "", priority |-> "", assignee_id |-> "",
      sort |-> "created_at", page |-> "1", page_size |-> "20" ]
NothingShown == [from |-> 0, list |-> << >>]

\* no wrapper call, form or page is being followed
NoView ==
    [ kind |-> "none", name |-> "", id |-> "", st |-> "idle",
      requests |-> << >>, reply |-> ViewNoResponse, result |-> NoBody,
      thrown |-> ViewNoError, toast |-> "", server |-> NoServer,
      issue |-> NoIssue, members |-> {}, project |-> NoProject,
      editMode |-> FALSE, loadError |-> FALSE,
      loading |-> FALSE, error |-> "", modal |-> FALSE, form |-> << >>,
      pwlen |-> 0, editData |-> "empty",
      filters |-> InitialFilters, fetches |-> << >>, shown |-> NothingShown ]

FreshCall ==
    [ st |-> "unused", owner |-> "", method |-> "", path |-> "",
      headers |-> [Authorization |-> NoHeader], sends |-> 0,
      reply |-> NoResponse, outcome |-> "none", value |-> NoResponse,
      error |-> NoError, clears |-> 0, redirected |-> FALSE,
      storeAtRedirect |-> [token |-> NULL, user |-> NULL] ]

\* api.get / api.post: the call enters the client's promise chain.
NewCall(owner, method, path) ==
    [FreshCall EXCEPT !.st = "created", !.owner = owner,
                      !.method = method, !.path = path]

TypeOK ==
    /\ store \in [token : Tokens \cup {NULL}, user : Profiles \cup {NULL}]
    /\ pathname \in Paths
    /\ href \in {NULL, "/login"}
    /\ user \in Profiles \cup {NULL}
    /\ loading \in BOOLEAN
    /\ nextId \in 1..(MaxCalls + 1)
    /\ initPc \in {"start", "awaitMe", "done"}
    /\ \A c \in CallIds :
          calls[c].st \in {"unused", "created", "sent", "settled", "done"}

Init ==
    /\ store \in [token : StoredTokens \cup {NULL}, user : Profiles \cup {NULL}]
    /\ pathname \in Paths
    /\ href = NULL
    /\ user = NULL
    /\ loading = TRUE
    /\ calls = [c \in CallIds |-> FreshCall]
    /\ nextId = 1
    /\ initPc = "start"
    /\ initCall = 0
    /\ loginPc = [c \in Callers |-> "idle"]
    /\ loginCall = [c \in Callers |-> 0]
    /\ obtained = [c \in Callers |-> NULL]
    /\ signupPc = "idle"
    /\ signupCall = 0
    /\ pagePc = [c \in Callers |-> "idle"]
    /\ view = NoView

\* ---- the request interceptor (runs for every call before it is sent) ----
\* Mutation: the header is written whether or not a token was found.
AttachTokenUnguarded(headers, token) ==
    [headers EXCEPT !.Authorization = Bearer(token)]

\* if (token) config.headers.Authorization = `Bearer ${token}`
AttachToken(headers, token) ==
    IF token # NULL
      THEN [headers EXCEPT !.Authorization = Bearer(token)]
      ELSE headers

\* The config leaves the interceptor and the adapter sends it: one HTTP request.
Dispatch(call, headers) ==
    [call EXCEPT !.headers = headers, !.st = "sent", !.sends = @ + 1]

\* Mutation: the credential is remembered from an earlier request (set once
\* on the shared defaults) instead of being read from the store each time.
RequestInterceptorKeepsOldHeader(c) ==
    /\ calls[c].st = "created"
    /\ LET token == getItem(store, "token")
           earlier == { calls[d].headers.Authorization : d \in CallIds }
                         \ {NoHeader}
           headers == IF token = NULL /\ earlier # {}
                        THEN [Authorization |-> CHOOSE h \in earlier : TRUE]
                        ELSE AttachToken(calls[c].headers, token)
       IN calls' = [calls EXCEPT ![c] = Dispatch(@, headers)]
    /\ UNCHANGED << store, pathname, href, user, loading, nextId, initPc,
                    initCall, loginPc, loginCall, obtained, signupPc,
                    signupCall, pagePc, view >>

\* Mutation: the credential is left off the authentication endpoints.
RequestInterceptorSkipsAuthPaths(c) ==
    /\ calls[c].st = "created"
    /\ LET token == IF calls[c].path \in {"/auth/login", "/auth/signup"}
                      THEN NULL ELSE getItem(store, "token")
       IN calls' = [calls EXCEPT
                      ![c] = Dispatch(@, AttachToken(@.headers, token))]
    /\ UNCHANGED << store, pathname, href, user, loading, nextId, initPc,
                    initCall, loginPc, loginCall, obtained, signupPc,
                    signupCall, pagePc, view >>

RequestInterceptor(c) ==
    /\ calls[c].st = "created"
    /\ LET token == getItem(store, "token")
       IN calls' = [calls EXCEPT
                      ![c] = Dispatch(@, AttachToken(@.headers, token))]
    /\ UNCHANGED << store, pathname, href, user, loading, nextId, initPc,
                    initCall, loginPc, loginCall, obtained, signupPc,
                    signupCall, pagePc, view >>

\* ---- the backend and the transport (outside the repository's frontend) ----
SuccessData(path) ==
    IF path = "/auth/login" THEN Tokens
    ELSE IF path \in {"/auth/me", "/auth/signup"} THEN Profiles
    ELSE {"payload"}

RepliesFor(path) ==
    {NoResponse}
      \cup {Response(s, b) : s \in ErrStatuses, b \in ErrBodies}
      \cup {Response(200, d) : d \in SuccessData(path)}

\* ---- scheduling ----
\* A callback of the promise chain is due: the request interceptor of a call
\* just made, or the resumption of the function that awaits a settled call
\* or a settled login() / signup().  These jobs run before the browser
\* delivers the next event (a response, a click, the mount effect), so no
\* event is handled while one is due.
JobDue ==
    \/ \E c \in CallIds : calls[c].st \in {"created", "settled"}
    \/ \E k \in Callers : loginPc[k] \in {"resolved", "rejected"}
    \/ signupPc \in {"resolved", "rejected"}

\* ---- the response interceptor ----
\* (response) => response
SettleFulfilled(call, response) ==
    [call EXCEPT !.st = "settled", !.outcome = "resolved", !.value = response]

\* Mutation: the success callback caches the body it passes on in the store.
ResponseFulfilledCachesBody(c) ==
    /\ ~JobDue
    /\ calls[c].st = "sent"
    /\ \E r \in RepliesFor(calls[c].path) :
          /\ Is2xx(r)
          /\ calls' = [calls EXCEPT
                         ![c] = SettleFulfilled([@ EXCEPT !.reply = r], r)]
          /\ store' = setItem(store, "user", r.data)
    /\ UNCHANGED << pathname, href, user, loading, nextId, initPc,
                    initCall, loginPc, loginCall, obtained, signupPc,
                    signupCall, pagePc, view >>

\* A 2xx response reaches the client and runs the success callback.
ResponseFulfilled(c) ==
    /\ ~JobDue
    /\ calls[c].st = "sent"
    /\ \E r \in RepliesFor(calls[c].path) :
          /\ Is2xx(r)
          /\ calls' = [calls EXCEPT
                         ![c] = SettleFulfilled([@ EXCEPT !.reply = r], r)]
    /\ UNCHANGED << store, pathname, href, user, loading, nextId, initPc,
                    initCall, loginPc, loginCall, obtained, signupPc,
                    signupCall, pagePc, view >>

\* Mutation: every 4xx status is taken for an authentication failure.
IsUnauthorizedAny4xx(error) ==
    /\ error.response.received
    /\ error.response.status >= 400
    /\ error.response.status < 500

\* Mutation: an error without a response is taken for an authentication
\* failure.
IsUnauthorizedOrNoResponse(error) ==
    ~error.response.received \/ error.response.status = 401

\* error.response?.status === 401
IsUnauthorized(error) ==
    error.response.received /\ error.response.status = 401

\* Mutation: the cached user is left in the store.
ClearTokenOnly(s) == removeItem(s, "token")

\* localStorage.removeItem('token'); localStorage.removeItem('user')
ClearSession(s) == removeItem(removeItem(s, "token"), "user")

\* window.location.pathname !== '/login'
NotOnLogin(path) == path # "/login"

\* Mutation: the redirect is done before the store is cleared.
ErrorReactionRedirectFirst(s, path, error) ==
    IF IsUnauthorized(error)
      THEN [ store |-> ClearSession(s),
             cleared |-> TRUE,
             redirect |-> NotOnLogin(path),
             storeAtRedirect |-> s ]
      ELSE [ store |-> s,
             cleared |-> FALSE,
             redirect |-> FALSE,
             storeAtRedirect |-> s ]

\* The statements of the error callback in their order: what the store is
\* after it, whether it assigns window.location.href, and what the store
\* holds at the moment of that assignment.
ErrorReaction(s, path, error) ==
    IF IsUnauthorized(error)
      THEN LET cleared == ClearSession(s)
           IN [ store |-> cleared,
                cleared |-> TRUE,
                redirect |-> NotOnLogin(path),
                storeAtRedirect |-> cleared ]
      ELSE [ store |-> s,
             cleared |-> FALSE,
             redirect |-> FALSE,
             storeAtRedirect |-> s ]

\* Mutation: after the 401 reaction the callback returns normally, which
\* resolves the call.
SettleSwallows401(call, error) ==
    IF IsUnauthorized(error)
      THEN [call EXCEPT !.st = "settled", !.outcome = "resolved"]
      ELSE [call EXCEPT !.st = "settled", !.outcome = "rejected",
                        !.error = error]

\* Mutation: a failed request is put back in the chain to be sent again.
SettleRetries(call, error) ==
    IF call.sends < 2
      THEN [call EXCEPT !.st = "created"]
      ELSE [call EXCEPT !.st = "settled", !.outcome = "rejected",
                        !.error = error]

\* return Promise.reject(error)
SettleRejected(call, error) ==
    [call EXCEPT !.st = "settled", !.outcome = "rejected", !.error = error]

\* Mutation: the 401 reaction spares a token that is not the one the failed
\* request carried.
ResponseRejectedKeepsNewerToken(c) ==
    /\ ~JobDue
    /\ calls[c].st = "sent"
    /\ \E reply \in RepliesFor(calls[c].path) :
          /\ ~Is2xx(reply)
          /\ LET error == AxiosError(reply)
                 r == ErrorReaction(store, pathname, error)
                 own == calls[c].headers.Authorization
                          = Bearer(getItem(store, "token"))
             IN /\ store' = IF own THEN r.store ELSE store
                /\ href' = IF r.redirect THEN "/login" ELSE href
                /\ calls' = [calls EXCEPT
                     ![c] = [SettleRejected([@ EXCEPT !.reply = reply], error)
                               EXCEPT
                               !.clears = IF r.cleared THEN @ + 1 ELSE @,
                               !.redirected = r.redirect,
                               !.storeAtRedirect =
                                 IF r.redirect THEN r.storeAtRedirect ELSE @]]
    /\ UNCHANGED << pathname, user, loading, nextId, initPc, initCall,
                    loginPc, loginCall, obtained, signupPc, signupCall,
                    pagePc, view >>

\* Mutation: a failure also rejects the other requests still in flight.
ResponseRejectedCancelsOthers(c) ==
    /\ ~JobDue
    /\ calls[c].st = "sent"
    /\ \E reply \in RepliesFor(calls[c].path) :
          /\ ~Is2xx(reply)
          /\ LET error == AxiosError(reply)
                 r == ErrorReaction(store, pathname, error)
             IN /\ store' = r.store
                /\ href' = IF r.redirect THEN "/login" ELSE href
                /\ calls' = [d \in CallIds |->
                     IF d = c
                       THEN [SettleRejected([calls[d] EXCEPT !.reply = reply],
                                            error)
                               EXCEPT
                               !.clears = IF r.cleared THEN @ + 1 ELSE @,
                               !.redirected = r.redirect,
                               !.storeAtRedirect =
                                 IF r.redirect THEN r.storeAtRedirect ELSE @]
                     ELSE IF calls[d].st = "sent"
                       THEN SettleRejected(calls[d], error)
                     ELSE calls[d]]
    /\ UNCHANGED << pathname, user, loading, nextId, initPc, initCall,
                    loginPc, loginCall, obtained, signupPc, signupCall,
                    pagePc, view >>

\* A non-2xx response, or no response at all, ends the exchange and runs
\* the error callback.
ResponseRejected(c) ==
    /\ ~JobDue
    /\ calls[c].st = "sent"
    /\ \E reply \in RepliesFor(calls[c].path) :
          /\ ~Is2xx(reply)
          /\ LET error == AxiosError(reply)
                 r == ErrorReaction(store, pathname, error)
             IN /\ store' = r.store
                /\ href' = IF r.redirect THEN "/login" ELSE href
                /\ calls' = [calls EXCEPT
                     ![c] = [SettleRejected([@ EXCEPT !.reply = reply], error)
                               EXCEPT
                               !.clears = IF r.cleared THEN @ + 1 ELSE @,
                               !.redirected = r.redirect,
                               !.storeAtRedirect =
                                 IF r.redirect THEN r.storeAtRedirect ELSE @]]
    /\ UNCHANGED << pathname, user, loading, nextId, initPc, initCall,
                    loginPc, loginCall, obtained, signupPc, signupCall,
                    pagePc, view >>

\* ---- AuthProvider ----
Settled(c) == c \in CallIds /\ calls[c].st = "settled"

Mounted == initPc # "start"

\* The awaiting function has resumed with the result of call c: the promise
\* is of no further use.
Retire(cs, c) ==
    [cs EXCEPT ![c] = [FreshCall EXCEPT !.st = "done", !.sends = cs[c].sends]]

\* One api.get / api.post by `owner`: the next call id is taken.
IssueIn(cs, owner, method, path) ==
    /\ nextId <= MaxCalls
    /\ calls' = [cs EXCEPT ![nextId] = NewCall(owner, method, path)]
    /\ nextId' = nextId + 1

Issue(owner, method, path) == IssueIn(calls, owner, method, path)

\* useEffect on mount: initAuth up to its await.
InitAuthStart ==
    /\ initPc = "start"
    /\ IF getItem(store, "token") # NULL
         THEN /\ Issue("initAuth", "GET", "/auth/me")
              /\ initCall' = nextId
              /\ initPc' = "awaitMe"
              /\ UNCHANGED loading
         ELSE /\ loading' = FALSE
              /\ initPc' = "done"
              /\ UNCHANGED << calls, nextId, initCall >>
    /\ UNCHANGED << store, pathname, href, user, loginPc, loginCall,
                    obtained, signupPc, signupCall, pagePc, view >>

\* Mutation: setLoading(false) is the last statement of the try block.
InitAuthResumeLoadingOnSuccessOnly ==
    /\ initPc = "awaitMe"
    /\ Settled(initCall)
    /\ IF calls[initCall].outcome = "resolved"
         THEN /\ user' = calls[initCall].value.data
              /\ loading' = FALSE
              /\ UNCHANGED store
         ELSE /\ store' = removeItem(removeItem(store, "token"), "user")
              /\ UNCHANGED << user, loading >>
    /\ initPc' = "done"
    /\ calls' = Retire(calls, initCall)
    /\ UNCHANGED << pathname, href, nextId, initCall, loginPc,
                    loginCall, obtained, signupPc, signupCall, pagePc, view >>

\* Mutation: the catch block of initAuth is empty.
InitAuthResumeIgnoresFailure ==
    /\ initPc = "awaitMe"
    /\ Settled(initCall)
    /\ IF calls[initCall].outcome = "resolved"
         THEN /\ user' = calls[initCall].value.data
              /\ UNCHANGED store
         ELSE UNCHANGED << store, user >>
    /\ loading' = FALSE
    /\ initPc' = "done"
    /\ calls' = Retire(calls, initCall)
    /\ UNCHANGED << pathname, href, nextId, initCall, loginPc,
                    loginCall, obtained, signupPc, signupCall, pagePc, view >>

\* initAuth after authAPI.getCurrentUser() settled.
InitAuthResume ==
    /\ initPc = "awaitMe"
    /\ Settled(initCall)
    /\ IF calls[initCall].outcome = "resolved"
         THEN /\ user' = calls[initCall].value.data
              /\ UNCHANGED store
         ELSE /\ store' = removeItem(removeItem(store, "token"), "user")
              /\ UNCHANGED user
    /\ loading' = FALSE
    /\ initPc' = "done"
    /\ calls' = Retire(calls, initCall)
    /\ UNCHANGED << pathname, href, nextId, initCall, loginPc,
                    loginCall, obtained, signupPc, signupCall, pagePc, view >>

\* login(email, password) up to its first await, called by `k`.
LoginStart(cs, k) ==
    /\ IssueIn(cs, k, "POST", "/auth/login")
    /\ loginCall' = [loginCall EXCEPT ![k] = nextId]
    /\ loginPc' = [loginPc EXCEPT ![k] = "awaitLogin"]
    /\ obtained' = [obtained EXCEPT ![k] = NULL]

\* Mutation: login() fetches the profile first and would store the token
\* afterwards.
LoginAfterTokenStoresLate(k) ==
    /\ loginPc[k] = "awaitLogin"
    /\ Settled(loginCall[k])
    /\ IF calls[loginCall[k]].outcome = "resolved"
         THEN LET access_token == calls[loginCall[k]].value.data
              IN /\ obtained' = [obtained EXCEPT ![k] = access_token]
                 /\ IssueIn(Retire(calls, loginCall[k]), k, "GET", "/auth/me")
                 /\ loginCall' = [loginCall EXCEPT ![k] = nextId]
                 /\ loginPc' = [loginPc EXCEPT ![k] = "awaitMe"]
                 /\ UNCHANGED store
         ELSE /\ loginPc' = [loginPc EXCEPT ![k] = "rejected"]
              /\ calls' = Retire(calls, loginCall[k])
              /\ UNCHANGED << store, obtained, nextId, loginCall >>
    /\ UNCHANGED << pathname, href, user, loading, initPc, initCall,
                    signupPc, signupCall, pagePc, view >>

\* login() after authAPI.login settled: store the token, fetch the profile.
LoginAfterToken(k) ==
    /\ loginPc[k] = "awaitLogin"
    /\ Settled(loginCall[k])
    /\ IF calls[loginCall[k]].outcome = "resolved"
         THEN LET access_token == calls[loginCall[k]].value.data
              IN /\ store' = setItem(store, "token", access_token)
                 /\ obtained' = [obtained EXCEPT ![k] = access_token]
                 /\ IssueIn(Retire(calls, loginCall[k]), k, "GET", "/auth/me")
                 /\ loginCall' = [loginCall EXCEPT ![k] = nextId]
                 /\ loginPc' = [loginPc EXCEPT ![k] = "awaitMe"]
         ELSE /\ loginPc' = [loginPc EXCEPT ![k] = "rejected"]
              /\ calls' = Retire(calls, loginCall[k])
              /\ UNCHANGED << store, obtained, nextId, loginCall >>
    /\ UNCHANGED << pathname, href, user, loading, initPc, initCall,
                    signupPc, signupCall, pagePc, view >>

\* login() after authAPI.getCurrentUser() settled.
LoginAfterMe(k) ==
    /\ loginPc[k] = "awaitMe"
    /\ Settled(loginCall[k])
    /\ IF calls[loginCall[k]].outcome = "resolved"
         THEN /\ user' = calls[loginCall[k]].value.data
              /\ loginPc' = [loginPc EXCEPT ![k] = "resolved"]
         ELSE /\ loginPc' = [loginPc EXCEPT ![k] = "rejected"]
              /\ UNCHANGED user
    /\ calls' = Retire(calls, loginCall[k])
    /\ UNCHANGED << store, pathname, href, loading, nextId, initPc,
                    initCall, loginCall, obtained, signupPc, signupCall,
                    pagePc, view >>

\* Mutation: signup() goes on to login() whatever authAPI.signup did.
SignupAfterSignupAlwaysLogsIn ==
    /\ signupPc = "awaitSignup"
    /\ Settled(signupCall)
    /\ LoginStart(Retire(calls, signupCall), "SignupPage")
    /\ signupPc' = "awaitLogin"
    /\ UNCHANGED << store, pathname, href, user, loading, initPc, initCall,
                    signupCall, pagePc, view >>

\* signup() after authAPI.signup settled: auto-login.
SignupAfterSignup ==
    /\ signupPc = "awaitSignup"
    /\ Settled(signupCall)
    /\ IF calls[signupCall].outcome = "resolved"
         THEN /\ LoginStart(Retire(calls, signupCall), "SignupPage")
              /\ signupPc' = "awaitLogin"
         ELSE /\ signupPc' = "rejected"
              /\ calls' = Retire(calls, signupCall)
              /\ UNCHANGED << nextId, loginPc, loginCall, obtained >>
    /\ UNCHANGED << store, pathname, href, user, loading, initPc, initCall,
                    signupCall, pagePc, view >>

\* signup() after its login() settled.
SignupAfterLogin ==
    /\ signupPc = "awaitLogin"
    /\ loginPc["SignupPage"] \in {"resolved", "rejected"}
    /\ signupPc' = loginPc["SignupPage"]
    /\ loginPc' = [loginPc EXCEPT !["SignupPage"] = "idle"]
    /\ obtained' = [obtained EXCEPT !["SignupPage"] = NULL]
    /\ UNCHANGED << store, pathname, href, user, loading, calls, nextId,
                    initPc, initCall, loginCall, signupCall, pagePc, view >>

\* Mutation: logout() forgets the in-memory user and leaves the store.
LogoutKeepsStore ==
    /\ ~JobDue
    /\ Mounted
    /\ pathname = "/projects"
    /\ user' = NULL
    /\ pathname' = "/login"
    /\ UNCHANGED << store, href, loading, calls, nextId, initPc, initCall,
                    loginPc, loginCall, obtained, signupPc, signupCall,
                    pagePc, view >>

\* logout(), then the Navbar's navigate('/login').
Logout ==
    /\ ~JobDue
    /\ Mounted
    /\ pathname = "/projects"
    /\ store' = removeItem(removeItem(store, "token"), "user")
    /\ user' = NULL
    /\ pathname' = "/login"
    /\ UNCHANGED << href, loading, calls, nextId, initPc, initCall, loginPc,
                    loginCall, obtained, signupPc, signupCall, pagePc, view >>

\* ---- pages ----
\* The calls that the login() and signup() under way have yet to make: the
\* model starts a flow only if the calls it needs are left for it.
Owed ==
    (IF loginPc["LoginPage"] = "awaitLogin" THEN 1 ELSE 0)
      + (IF loginPc["SignupPage"] = "awaitLogin" THEN 1 ELSE 0)
      + (IF signupPc = "awaitSignup" THEN 2 ELSE 0)

\* Login.handleSubmit up to `await login(...)`.
LoginSubmit ==
    /\ ~JobDue
    /\ Mounted
    /\ pathname = "/login"
    /\ pagePc["LoginPage"] = "idle"
    /\ nextId + 1 + Owed <= MaxCalls
    /\ pagePc' = [pagePc EXCEPT !["LoginPage"] = "submitting"]
    /\ LoginStart(calls, "LoginPage")
    /\ UNCHANGED << store, pathname, href, user, loading, initPc, initCall,
                    signupPc, signupCall, view >>

\* Login.handleSubmit after login() settled.
LoginPageDone ==
    /\ pagePc["LoginPage"] = "submitting"
    /\ loginPc["LoginPage"] \in {"resolved", "rejected"}
    /\ pathname' = IF loginPc["LoginPage"] = "resolved"
                     THEN "/projects" ELSE pathname
    /\ pagePc' = [pagePc EXCEPT !["LoginPage"] = "idle"]
    /\ loginPc' = [loginPc EXCEPT !["LoginPage"] = "idle"]
    /\ obtained' = [obtained EXCEPT !["LoginPage"] = NULL]
    /\ UNCHANGED << store, href, user, loading, calls, nextId, initPc,
                    initCall, loginCall, signupPc, signupCall, view >>

\* Signup.handleSubmit with a password of 8 characters or more, up to
\* `await signup(...)`, which runs signup() up to its first await.
SignupSubmit ==
    /\ ~JobDue
    /\ Mounted
    /\ pathname = "/signup"
    /\ pagePc["SignupPage"] = "idle"
    /\ nextId + 2 + Owed <= MaxCalls
    /\ pagePc' = [pagePc EXCEPT !["SignupPage"] = "submitting"]
    /\ Issue("SignupPage", "POST", "/auth/signup")
    /\ signupCall' = nextId
    /\ signupPc' = "awaitSignup"
    /\ UNCHANGED << store, pathname, href, user, loading, initPc, initCall,
                    loginPc, loginCall, obtained, view >>

\* Signup.handleSubmit after signup() settled.
SignupPageDone ==
    /\ pagePc["SignupPage"] = "submitting"
    /\ signupPc \in {"resolved", "rejected"}
    /\ pathname' = IF signupPc = "resolved" THEN "/projects" ELSE pathname
    /\ pagePc' = [pagePc EXCEPT !["SignupPage"] = "idle"]
    /\ signupPc' = "idle"
    /\ UNCHANGED << store, href, user, loading, calls, nextId, initPc,
                    initCall, loginPc, loginCall, obtained, signupCall, view >>

\* The links between the Login and the Signup page (client-side routing).
FollowLink ==
    /\ ~JobDue
    /\ Mounted
    /\ pathname \in {"/login", "/signup"}
    /\ pathname' = IF pathname = "/login" THEN "/signup" ELSE "/login"
    /\ UNCHANGED << store, href, user, loading, calls, nextId, initPc,
                    initCall, loginPc, loginCall, obtained, signupPc,
                    signupCall, pagePc, view >>

\* A page under /projects calls one of the resource wrappers.
PageRequest ==
    /\ ~JobDue
    /\ Mounted
    /\ pathname = "/projects"
    /\ nextId + Owed <= MaxCalls
    /\ \E q \in ResourceRequests : Issue("Page", q.method, q.path)
    /\ UNCHANGED << store, pathname, href, user, loading, initPc, initCall,
                    loginPc, loginCall, obtained, signupPc, signupCall,
                    pagePc, view >>

\* The page's handler resumes after its wrapper call settled (it renders the
\* data or shows a message).
PageRequestDone(c) ==
    /\ Settled(c)
    /\ calls[c].owner = "Page"
    /\ calls' = Retire(calls, c)
    /\ UNCHANGED << store, pathname, href, user, loading, nextId, initPc,
                    initCall, loginPc, loginCall, obtained, signupPc,
                    signupCall, pagePc, view >>

Next ==
    \/ \E c \in CallIds : RequestInterceptor(c)
    \/ \E c \in CallIds : ResponseFulfilled(c)
    \/ \E c \in CallIds : ResponseRejected(c)
    \/ InitAuthStart
    \/ InitAuthResume
    \/ \E k \in Callers : LoginAfterToken(k)
    \/ \E k \in Callers : LoginAfterMe(k)
    \/ SignupAfterSignup
    \/ SignupAfterLogin
    \/ Logout
    \/ LoginSubmit
    \/ LoginPageDone
    \/ SignupSubmit
    \/ SignupPageDone
    \/ FollowLink
    \/ PageRequest
    \/ \E c \in CallIds : PageRequestDone(c)

Spec == Init /\ [][Next]_vars

\* The same program with its scheduling: the mount effect runs, every
\* callback of a promise chain that is due runs, and the transport ends
\* every request it was given with a response or with a failure.
FairSpec ==
    /\ Spec
    /\ WF_vars(InitAuthStart)
    /\ WF_vars(InitAuthResume)
    /\ \A c \in CallIds : WF_vars(RequestInterceptor(c))
    /\ \A c \in CallIds : WF_vars(ResponseFulfilled(c) \/ ResponseRejected(c))
    /\ \A k \in Callers : WF_vars(LoginAfterToken(k) \/ LoginAfterMe(k))
    /\ WF_vars(SignupAfterSignup \/ SignupAfterLogin)
    /\ WF_vars(LoginPageDone \/ SignupPageDone)
    /\ \A c \in CallIds : WF_vars(PageRequestDone(c))

(***************************************************************************)
(* The resource wrappers and the pages that call them.  One wrapper call,  *)
(* one form submission or one page is followed at a time, in `view`.  The  *)
(* requests go through the client above, so the token of the store is      *)
(* attached and a 401 has its effect on the store and on href.             *)
(***************************************************************************)
viewFrame == << loading, calls, nextId, initPc, initCall, loginPc,
                loginCall, obtained, signupPc, signupCall, pagePc >>

\* ---- the backend, as the wrappers see it ----
ViewBodies == {NoBody} \cup {Body("error", d) : d \in Details}
ViewFailures ==
    {ViewNoResponse}
      \cup {Response(s, b) : s \in ErrStatuses, b \in ViewBodies}
ViewSuccesses == {Response(200, Body("payload", Undefined)), Response(204, NoBody)}

\* ---- authAPI, projectsAPI, issuesAPI, commentsAPI ----
Wrappers ==
    { "signup", "login", "getCurrentUser",
      "getProjects", "createProject", "getProject", "addMember",
      "getIssues", "createIssue", "getIssue", "updateIssue", "deleteIssue",
      "getComments", "createComment" }

\* the wrappers that take no id
NoIdWrappers ==
    {"signup", "login", "getCurrentUser", "getProjects", "createProject"}

WrapperIds(w) == IF w \in NoIdWrappers THEN {""} ELSE Ids

\* The api.get / api.post / api.patch / api.delete call a wrapper makes:
\* the verb, the path (its segments) and what is passed along.
WrapperCall(w, id) ==
    CASE w = "signup" ->
           [method |-> "POST", path |-> << "auth", "signup" >>, sends |-> "data"]
      [] w = "login" ->
           [method |-> "POST", path |-> << "auth", "login" >>, sends |-> "data"]
      [] w = "getCurrentUser" ->
           [method |-> "GET", path |-> << "auth", "me" >>, sends |-> "none"]
      [] w = "getProjects" ->
           [method |-> "GET", path |-> << "projects" >>, sends |-> "none"]
      [] w = "createProject" ->
           [method |-> "POST", path |-> << "projects" >>, sends |-> "data"]
      [] w = "getProject" ->
           [method |-> "GET", path |-> << "projects", id >>, sends |-> "none"]
      [] w = "addMember" ->
           [method |-> "POST", path |-> << "projects", id, "members" >>,
            sends |-> "data"]
      [] w = "getIssues" ->
           [method |-> "GET", path |-> << "projects", id, "issues" >>,
            sends |-> "params"]
      [] w = "createIssue" ->
           [method |-> "POST", path |-> << "projects", id, "issues" >>,
            sends |-> "data"]
      [] w = "getIssue" ->
           [method |-> "GET", path |-> << "issues", id >>, sends |-> "none"]
      [] w = "updateIssue" ->
           [method |-> "PATCH", path |-> << "issues", id >>, sends |-> "data"]
      [] w = "deleteIssue" ->
           [method |-> "DELETE", path |-> << "issues", id >>, sends |-> "none"]
      [] w = "getComments" ->
           [method |-> "GET", path |-> << "issues", id, "comments" >>,
            sends |-> "none"]
      [] w = "createComment" ->
           [method |-> "POST", path |-> << "issues", id, "comments" >>,
            sends |-> "data"]

\* The request as it leaves the client: the request interceptor has run.
ClientRequest(call, s) ==
    [ method |-> call.method, path |-> call.path, sends |-> call.sends,
      headers |-> AttachToken([Authorization |-> NoHeader], getItem(s, "token")) ]

\* Mutation: updateIssue, like deleteIssue, has no return statement.
WrapperReturnForgetsUpdate(w, response) ==
    IF w \in {"deleteIssue", "updateIssue"} THEN NoBody ELSE response.data

\* What the wrapper returns once its call resolved: `return response.data`,
\* except deleteIssue, which has no return statement (undefined).
WrapperReturn(w, response) ==
    IF w = "deleteIssue" THEN NoBody ELSE response.data

\* The error callback of the response interceptor ran for `error`.
ViewReject(s, error) ==
    LET r == ErrorReaction(s, pathname, error)
    IN /\ store' = r.store
       /\ href' = IF r.redirect THEN "/login" ELSE href

\* A page or a test calls wrapper w.
CallWrapper(w, id) ==
    /\ view.kind = "none"
    /\ view' = [NoView EXCEPT
                  !.kind = "wrapper", !.name = w, !.id = id, !.st = "pending",
                  !.requests = << ClientRequest(WrapperCall(w, id), store) >>]
    /\ UNCHANGED << store, href, pathname, user, viewFrame >>

\* The wrapper resumes from its await: it returns, or the rejection of the
\* call propagates (no wrapper has a try / catch).
WrapperSettles ==
    /\ view.kind = "wrapper"
    /\ view.st = "pending"
    /\ \E reply \in ViewSuccesses \cup ViewFailures :
          IF Is2xx(reply)
            THEN /\ view' = [view EXCEPT
                               !.st = "resolved", !.reply = reply,
                               !.result = WrapperReturn(view.name, reply)]
                 /\ UNCHANGED << store, href >>
            ELSE /\ view' = [view EXCEPT
                               !.st = "rejected", !.reply = reply,
                               !.thrown = AxiosError(reply)]
                 /\ ViewReject(store, AxiosError(reply))
    /\ UNCHANGED << pathname, user, viewFrame >>

\* ---- the form handlers ----
Forms ==
    { "login", "signup", "createProject", "createIssue", "updateIssue",
      "deleteIssue", "addMember" }

AuthForms == {"login", "signup"}

\* the route the form is on
FormRoute(f) ==
    IF f = "login" THEN "/login"
    ELSE IF f = "signup" THEN "/signup"
    ELSE "/projects"

FormIds(f) == IF f \in AuthForms \cup {"createProject"} THEN {""} ELSE Ids

\* the static message of the handler's catch block
Generic(f) ==
    CASE f = "login" -> "Login failed. Please try again."
      [] f = "signup" -> "Signup failed. Please try again."
      [] f = "createProject" -> "Failed to create project"
      [] f = "createIssue" -> "Failed to create issue"
      [] f = "updateIssue" -> "Failed to update issue"
      [] f = "deleteIssue" -> "Failed to delete issue"
      [] f = "addMember" -> "Failed to add member"

CreateForms == {"createProject", "createIssue", "addMember"}

\* useState(...) of the form behind the modal
InitialForm(f) ==
    CASE f = "createProject" -> << "", "", "" >>
      [] f = "createIssue" -> << "", "", "medium", "" >>
      [] f = "addMember" -> << "", "member" >>
      [] OTHER -> << >>

\* Mutation: the reset clears every field, the priority included.
ResetFormClearsAll(f) ==
    CASE f = "createProject" -> << "", "", "" >>
      [] f = "createIssue" -> << "", "", "", "" >>
      [] f = "addMember" -> << "", "" >>
      [] OTHER -> << >>

\* the values the handler sets after a success
ResetForm(f) ==
    CASE f = "createProject" -> << "", "", "" >>
      [] f = "createIssue" -> << "", "", "medium", "" >>
      [] f = "addMember" -> << "", "member" >>
      [] OTHER -> << >>

\* what the user typed before submitting
TypedForm(f) ==
    CASE f = "createProject" -> << "Apollo", "APO", "Moon" >>
      [] f = "createIssue" -> << "Crash", "On start", "high", "alice" >>
      [] f = "addMember" -> << "bob@example.com", "maintainer" >>
      [] OTHER -> << >>

\* fetchProjects / fetchIssues / fetchProject, called after a success
Refetch(f, id) ==
    CASE f = "createProject" -> WrapperCall("getProjects", "")
      [] f = "createIssue" -> WrapperCall("getIssues", id)
      [] f = "addMember" -> WrapperCall("getProject", id)

MinPasswordLength == 8
PasswordLengths == {7, 8}
PasswordTooShort == "Password must be at least 8 characters long"

\* err.response?.data?.detail
OptionalDetail(err) ==
    IF ~err.response.received THEN Undefined
    ELSE IF ~err.response.data.json THEN Undefined
    ELSE err.response.data.detail

\* Mutation: the catch block shows its static message whatever the error.
FailureMessageStatic(err, generic) == generic

\* err.response?.data?.detail || generic
FailureMessage(err, generic) == Or(OptionalDetail(err), generic)

\* Mutation: the length check of Signup.handleSubmit is missing.
SubmitFormUnchecked(f, id) ==
    /\ view.kind = "none"
    /\ pathname = FormRoute(f)
    /\ f \notin AuthForms => user # NULL
    /\ \E len \in PasswordLengths :
          IF FALSE
            THEN view' = [NoView EXCEPT
                            !.kind = "form", !.name = f, !.st = "invalid",
                            !.pwlen = len, !.error = PasswordTooShort,
                            !.toast = PasswordTooShort, !.loading = FALSE]
            ELSE view' = [NoView EXCEPT
                            !.kind = "form", !.name = f, !.id = id,
                            !.st = "pending",
                            !.pwlen = IF f = "signup" THEN len ELSE 0,
                            !.loading = f \in AuthForms,
                            !.modal = f \in CreateForms,
                            !.form = TypedForm(f),
                            !.requests =
                              << ClientRequest(WrapperCall(f, id), store) >>]
    /\ UNCHANGED << store, href, pathname, user, viewFrame >>

\* handleSubmit / handleCreate... / handleUpdateIssue / handleDeleteIssue /
\* handleAddMember up to the await of its action.  Signup first checks the
\* password length and returns with a message of its own.
SubmitForm(f, id) ==
    /\ view.kind = "none"
    /\ pathname = FormRoute(f)
    /\ f \notin AuthForms => user # NULL
    /\ \E len \in PasswordLengths :
          IF f = "signup" /\ len < MinPasswordLength
            THEN view' = [NoView EXCEPT
                            !.kind = "form", !.name = f, !.st = "invalid",
                            !.pwlen = len, !.error = PasswordTooShort,
                            !.toast = PasswordTooShort, !.loading = FALSE]
            ELSE view' = [NoView EXCEPT
                            !.kind = "form", !.name = f, !.id = id,
                            !.st = "pending",
                            !.pwlen = IF f = "signup" THEN len ELSE 0,
                            !.loading = f \in AuthForms,
                            !.modal = f \in CreateForms,
                            !.form = TypedForm(f),
                            !.requests =
                              << ClientRequest(WrapperCall(f, id), store) >>]
    /\ UNCHANGED << store, href, pathname, user, viewFrame >>

\* Mutation: navigate("/projects") stands after the try / catch.
FormSettlesNavigatesAlways ==
    /\ view.kind = "form"
    /\ view.st = "pending"
    /\ \E reply \in ViewSuccesses \cup ViewFailures, tok \in Tokens,
          stored \in BOOLEAN :
          LET auth == view.name \in AuthForms
              base == IF auth /\ (stored \/ Is2xx(reply))
                        THEN setItem(store, "token", tok) ELSE store
              err == AxiosError(reply)
          IN /\ stored => auth
             /\ IF Is2xx(reply)
                  THEN /\ view' = [view EXCEPT
                                     !.st = "resolved", !.toast = "success",
                                     !.loading = FALSE,
                                     !.modal = FALSE,
                                     !.form = ResetForm(view.name),
                                     !.requests =
                                       IF view.name \in CreateForms
                                         THEN Append(@, ClientRequest(
                                                Refetch(view.name, view.id),
                                                base))
                                         ELSE @]
                       /\ store' = base
                       /\ user' = IF auth THEN "alice" ELSE user
                       /\ pathname' = IF auth THEN "/projects" ELSE pathname
                       /\ UNCHANGED href
                  ELSE /\ view' = [view EXCEPT
                                     !.st = "rejected", !.reply = reply,
                                     !.thrown = err,
                                     !.loading = FALSE,
                                     !.error =
                                       IF view.name \in {"signup", "addMember"}
                                         THEN FailureMessage(err,
                                                Generic(view.name))
                                         ELSE @,
                                     !.toast = FailureMessage(err,
                                                 Generic(view.name))]
                       /\ ViewReject(base, err)
                       /\ pathname' = IF auth THEN "/projects" ELSE pathname
                       /\ UNCHANGED user
    /\ UNCHANGED viewFrame

\* The handler resumes from its await.  For login and signup the awaited
\* action is AuthProvider.login / signup: it has stored the token and set
\* the user when it resolves, and it may have stored the token before the
\* call that failed.
FormSettles ==
    /\ view.kind = "form"
    /\ view.st = "pending"
    /\ \E reply \in ViewSuccesses \cup ViewFailures, tok \in Tokens,
          stored \in BOOLEAN :
          LET auth == view.name \in AuthForms
              base == IF auth /\ (stored \/ Is2xx(reply))
                        THEN setItem(store, "token", tok) ELSE store
              err == AxiosError(reply)
          IN /\ stored => auth
             /\ IF Is2xx(reply)
                  THEN /\ view' = [view EXCEPT
                                     !.st = "resolved", !.toast = "success",
                                     !.loading = FALSE,
                                     !.modal = FALSE,
                                     !.form = ResetForm(view.name),
                                     !.requests =
                                       IF view.name \in CreateForms
                                         THEN Append(@, ClientRequest(
                                                Refetch(view.name, view.id),
                                                base))
                                         ELSE @]
                       /\ store' = base
                       /\ user' = IF auth THEN "alice" ELSE user
                       /\ pathname' = IF auth THEN "/projects" ELSE pathname
                       /\ UNCHANGED href
                  ELSE /\ view' = [view EXCEPT
                                     !.st = "rejected", !.reply = reply,
                                     !.thrown = err,
                                     !.loading = FALSE,
                                     !.error =
                                       IF view.name \in {"signup", "addMember"}
                                         THEN FailureMessage(err,
                                                Generic(view.name))
                                         ELSE @,
                                     !.toast = FailureMessage(err,
                                                 Generic(view.name))]
                       /\ ViewReject(base, err)
                       /\ UNCHANGED << user, pathname >>
    /\ UNCHANGED viewFrame

\* ---- IssueDetail and ProjectDetail ----
\* members.find(m => m.user.id === user.id && m.role === 'maintainer'):
\* the entry found, as a set (empty when find returns undefined).
MaintainerEntry(members, uid) ==
    {m \in members : m.user.id = uid /\ m.role = "maintainer"}

\* Mutation: any entry of the member list counts.
canEditAnyMember(issue, members, me) ==
    /\ issue.loaded
    /\ \/ me.id = issue.reporter.id
       \/ {m \in members : m.user.id = me.id} # {}

canEdit(issue, members, me) ==
    /\ issue.loaded
    /\ \/ me.id = issue.reporter.id
       \/ MaintainerEntry(members, me.id) # {}

canDelete(issue, members, me) ==
    issue.loaded /\ MaintainerEntry(members, me.id) # {}

isMaintainer(project, me) ==
    project.loaded /\ MaintainerEntry(project.members, me.id) # {}

\* the user of the AuthProvider, as the pages read it
Me == [id |-> user]

\* The page mounts on the route of issue `id`: fetchIssue up to its first
\* await.  The backend holds the issue's reporter and its project's members.
OpenIssue(id) ==
    /\ view.kind = "none"
    /\ pathname = "/projects"
    /\ user # NULL
    /\ \E rep \in Users, M \in MemberLists :
          view' = [NoView EXCEPT
                     !.kind = "issue", !.id = id, !.st = "loadingIssue",
                     !.loading = TRUE,
                     !.server = [reporter |-> [id |-> rep], members |-> M],
                     !.requests =
                       << ClientRequest(WrapperCall("getIssue", id), store) >>]
    /\ UNCHANGED << store, href, pathname, user, viewFrame >>

\* Mutation: the catch block of fetchIssue also forgets the issue.
FetchIssueFailedDropsIssue(v) ==
    [v EXCEPT !.error = "Failed to load issue", !.loadError = TRUE,
              !.loading = FALSE, !.st = "ready", !.issue = NoIssue]

\* What the catch and finally blocks of fetchIssue leave (loadError marks
\* that the catch block of this run of fetchIssue was entered).
FetchIssueFailed(v) ==
    [v EXCEPT !.error = "Failed to load issue", !.loadError = TRUE,
              !.loading = FALSE, !.st = "ready"]

\* fetchIssue after issuesAPI.getIssue settled.
IssueSettles ==
    /\ view.kind = "issue"
    /\ view.st = "loadingIssue"
    /\ \/ LET data == WrapperReturn("getIssue",
                        Response(200, [loaded |-> TRUE,
                                       reporter |-> view.server.reporter,
                                       project_id |-> "5"]))
          IN /\ view' = [view EXCEPT
                           !.issue = data, !.st = "loadingMembers",
                           !.requests = Append(@,
                              ClientRequest(
                                WrapperCall("getProject", data.project_id),
                                store))]
             /\ UNCHANGED << store, href >>
       \/ \E reply \in ViewFailures :
             /\ view' = FetchIssueFailed(view)
             /\ ViewReject(store, AxiosError(reply))
    /\ UNCHANGED << pathname, user, viewFrame >>

\* fetchIssue after projectsAPI.getProject settled.
MembersSettle ==
    /\ view.kind = "issue"
    /\ view.st = "loadingMembers"
    /\ \/ LET projectData == WrapperReturn("getProject",
                               Response(200, [loaded |-> TRUE,
                                              members |-> view.server.members]))
          IN /\ view' = [view EXCEPT !.members = projectData.members,
                                     !.editData = "issue",
                                     !.loading = FALSE,
                                     !.st = "ready"]
             /\ UNCHANGED << store, href >>
       \/ \E reply \in ViewFailures :
             /\ view' = FetchIssueFailed(view)
             /\ ViewReject(store, AxiosError(reply))
    /\ UNCHANGED << pathname, user, viewFrame >>

\* handleUpdateIssue up to its await (the edit form is submitted).
SubmitEdit ==
    /\ view.kind = "issue"
    /\ view.st = "ready"
    /\ view.editMode
    /\ view' = [view EXCEPT
                  !.st = "updating",
                  !.requests =
                    << ClientRequest(WrapperCall("updateIssue", view.id),
                                     store) >>]
    /\ UNCHANGED << store, href, pathname, user, viewFrame >>

\* handleUpdateIssue after issuesAPI.updateIssue settled: on success the
\* edit form is left and fetchIssue runs again, up to its first await.
UpdateSettles ==
    /\ view.kind = "issue"
    /\ view.st = "updating"
    /\ \/ /\ view' = [view EXCEPT
                        !.toast = "success", !.editMode = FALSE,
                        !.loading = TRUE, !.st = "loadingIssue",
                        !.loadError = FALSE,
                        !.requests =
                          << ClientRequest(WrapperCall("getIssue", view.id),
                                           store) >>]
          /\ UNCHANGED << store, href >>
       \/ \E reply \in ViewFailures :
             /\ view' = [view EXCEPT
                           !.toast = FailureMessage(AxiosError(reply),
                                                    Generic("updateIssue")),
                           !.st = "ready"]
             /\ ViewReject(store, AxiosError(reply))
    /\ UNCHANGED << pathname, user, viewFrame >>

\* The issue header is on screen: loading is over, the issue is set and the
\* edit form has not replaced the header.
HeaderShown ==
    /\ view.kind = "issue"
    /\ ~view.loading
    /\ view.issue.loaded
    /\ ~view.editMode

EditOffered == HeaderShown /\ canEdit(view.issue, view.members, Me)

DeleteOffered == HeaderShown /\ canDelete(view.issue, view.members, Me)

\* onClick of the Edit button
ClickEdit ==
    /\ EditOffered
    /\ view.st = "ready"
    /\ view' = [view EXCEPT !.editMode = TRUE]
    /\ UNCHANGED << store, href, pathname, user, viewFrame >>

\* onClick of the Cancel button of the edit form
CancelEdit ==
    /\ view.kind = "issue"
    /\ view.st = "ready"
    /\ view.editMode
    /\ view' = [view EXCEPT !.editMode = FALSE]
    /\ UNCHANGED << store, href, pathname, user, viewFrame >>

\* ProjectDetail mounts: fetchProject up to its await.
OpenProject(id) ==
    /\ view.kind = "none"
    /\ pathname = "/projects"
    /\ user # NULL
    /\ \E M \in MemberLists :
          view' = [NoView EXCEPT
                     !.kind = "project", !.id = id, !.st = "loading",
                     !.server = [reporter |-> [id |-> NULL], members |-> M],
                     !.requests =
                       << ClientRequest(WrapperCall("getProject", id), store) >>]
    /\ UNCHANGED << store, href, pathname, user, viewFrame >>

\* fetchProject after projectsAPI.getProject settled.
ProjectSettles ==
    /\ view.kind = "project"
    /\ view.st = "loading"
    /\ \/ /\ view' = [view EXCEPT
                        !.project = WrapperReturn("getProject",
                           Response(200, [loaded |-> TRUE,
                                          members |-> view.server.members])),
                        !.st = "ready"]
          /\ UNCHANGED << store, href >>
       \/ \E reply \in ViewFailures :
             /\ view' = [view EXCEPT !.loadError = TRUE, !.st = "ready"]
             /\ ViewReject(store, AxiosError(reply))
    /\ UNCHANGED << pathname, user, viewFrame >>

\* The project page is on screen with its Team Members card.
AddMemberOffered ==
    /\ view.kind = "project"
    /\ view.st = "ready"
    /\ view.project.loaded
    /\ isMaintainer(view.project, Me)

\* ---- IssuesList ----
\* Object.keys(filters), in insertion order
FilterKeys ==
    << "q", "status", "priority", "assignee_id", "sort", "page", "page_size" >>

\* the filters with a control on the page, and what each can be set to
FilterControls == {"q", "status", "priority", "sort"}

FilterValues(field) ==
    CASE field = "q" -> {"", "bug"}
      [] field = "status" -> {"", "open"}
      [] field = "priority" -> {"", "high"}
      [] field = "sort" -> {"created_at", "priority"}

\* the lists of issues the backend may answer with
IssueLists == { << "i1", "i2" >>, << "i2" >> }

\* Mutation: the filters are passed on as they are.
CleanParamsSendsAll(filters) ==
    { << FilterKeys[i], filters[FilterKeys[i]] >> : i \in DOMAIN FilterKeys }

\* The forEach over Object.keys(filters) that fills cleanParams, from key i
\* on; the object is written as its set of (key, value) entries.
RECURSIVE CleanFrom(_, _, _)
CleanFrom(filters, i, cleanParams) ==
    IF i > Len(FilterKeys) THEN cleanParams
    ELSE LET key == FilterKeys[i]
         IN CleanFrom(filters, i + 1,
              IF filters[key] # "" /\ filters[key] # NULL
                THEN cleanParams \cup { << key, filters[key] >> }
                ELSE cleanParams)

CleanParams(filters) == CleanFrom(filters, 1, {})

\* fetchIssues up to its await: one more getIssues request in flight.
StartFetch(v, filters) ==
    [v EXCEPT
       !.filters = filters,
       !.loading = TRUE,
       !.fetches = Append(@, [ params |-> CleanParams(filters),
                               st |-> "inflight", list |-> << >> ]),
       !.requests = Append(@, ClientRequest(WrapperCall("getIssues", v.id),
                                            store))]

\* IssuesList mounts: the effect runs fetchIssues.
OpenIssuesList(id) ==
    /\ view.kind = "none"
    /\ pathname = "/projects"
    /\ user # NULL
    /\ view' = StartFetch([NoView EXCEPT !.kind = "issues", !.id = id,
                                        !.st = "ready"],
                          InitialFilters)
    /\ UNCHANGED << store, href, pathname, user, viewFrame >>

\* handleFilterChange: the filters change and the effect, which depends on
\* q, status, priority and sort, runs fetchIssues with the new filters.
ChangeFilter(field, value) ==
    /\ view.kind = "issues"
    /\ Len(view.fetches) < MaxFetches
    /\ value # view.filters[field]
    /\ view' = StartFetch(view, [view.filters EXCEPT ![field] = value])
    /\ UNCHANGED << store, href, pathname, user, viewFrame >>

\* fetchIssues after the getIssues request n settled, whichever request of
\* those in flight that is: setIssues(data.issues), or the catch block, and
\* setLoading(false) in finally.
FetchIssuesSettles(n) ==
    /\ view.kind = "issues"
    /\ n \in DOMAIN view.fetches
    /\ view.fetches[n].st = "inflight"
    /\ \/ \E list \in IssueLists :
             /\ view' = [view EXCEPT
                           !.fetches[n] = [@ EXCEPT !.st = "resolved",
                                                    !.list = list],
                           !.shown = [from |-> n, list |-> list],
                           !.loading = FALSE]
             /\ UNCHANGED << store, href >>
       \/ \E reply \in ViewFailures :
             /\ view' = [view EXCEPT
                           !.fetches[n] = [@ EXCEPT !.st = "rejected"],
                           !.error = "Failed to load issues",
                           !.loading = FALSE]
             /\ ViewReject(store, AxiosError(reply))
    /\ UNCHANGED << pathname, user, viewFrame >>

\* The user leaves what was followed (the caller is done with the result,
\* the toast is gone, another page is opened).
Dismiss ==
    /\ view.kind # "none"
    /\ view.st \in {"resolved", "rejected", "invalid", "ready"}
    /\ view' = NoView
    /\ UNCHANGED << store, href, pathname, user, viewFrame >>

\* The document after AuthProvider mounted: on /login or /signup with no
\* session, or on a protected page with the session initAuth confirmed.
ViewInit ==
    /\ pathname \in Paths
    /\ store = IF pathname = "/projects"
                 THEN [token |-> "tokA", user |-> NULL]
                 ELSE [token |-> NULL, user |-> NULL]
    /\ user = IF pathname = "/projects" THEN "alice" ELSE NULL
    /\ href = NULL
    /\ loading = FALSE
    /\ calls = IF pathname = "/projects"
                 THEN Retire([[c \in CallIds |-> FreshCall]
                                 EXCEPT ![1].sends = 1], 1)
                 ELSE [c \in CallIds |-> FreshCall]
    /\ nextId = IF pathname = "/projects" THEN 2 ELSE 1
    /\ initPc = "done"
    /\ initCall = IF pathname = "/projects" THEN 1 ELSE 0
    /\ loginPc = [c \in Callers |-> "idle"]
    /\ loginCall = [c \in Callers |-> 0]
    /\ obtained = [c \in Callers |-> NULL]
    /\ signupPc = "idle"
    /\ signupCall = 0
    /\ pagePc = [c \in Callers |-> "idle"]
    /\ view = NoView

ViewNext ==
    \/ \E w \in Wrappers : \E id \in WrapperIds(w) : CallWrapper(w, id)
    \/ WrapperSettles
    \/ \E f \in Forms : \E id \in FormIds(f) : SubmitForm(f, id)
    \/ FormSettles
    \/ \E id \in Ids : OpenIssue(id)
    \/ IssueSettles
    \/ MembersSettle
    \/ ClickEdit
    \/ CancelEdit
    \/ SubmitEdit
    \/ UpdateSettles
    \/ \E id \in Ids : OpenProject(id)
    \/ ProjectSettles
    \/ \E id \in Ids : OpenIssuesList(id)
    \/ \E field \in FilterControls :
          \E value \in FilterValues(field) : ChangeFilter(field, value)
    \/ \E n \in 1..MaxFetches : FetchIssuesSettles(n)
    \/ Dismiss

ViewSpec == ViewInit /\ [][ViewNext]_vars

\* ---- properties ----
\* Call c left the request interceptor in this step.
PreStepRan(c) == calls[c].st = "created" /\ calls'[c] # calls[c]

\* The response (or the transport failure) of call c was handled in this step.
Handled(c) == calls[c].st = "sent" /\ calls'[c] # calls[c]

Handled401(c) ==
    Handled(c) /\ calls'[c].reply.received /\ calls'[c].reply.status = 401

SessionAndLocationUnchanged ==
    store' = store /\ pathname' = pathname /\ href' = href

\* C1: every request whose pre-step runs while the store holds a token T,
\* whatever its method and path, is sent with Authorization = "Bearer T".
C1_BearerAttached ==
    [][ \A c \in CallIds :
          (PreStepRan(c) /\ store.token # NULL)
            => /\ calls'[c].st = "sent"
               /\ calls'[c].headers.Authorization = << "Bearer", store.token >>
      ]_vars

C1_Witness ==
    \E c \in CallIds :
       /\ calls[c].st = "sent"
       /\ calls[c].path = "/auth/login"
       /\ calls[c].headers.Authorization = << "Bearer", "tokA" >>

\* C2: a request whose pre-step runs while the store holds no token gets no
\* Authorization header and is sent all the same.
C2_NoTokenNoHeader ==
    [][ \A c \in CallIds :
          (PreStepRan(c) /\ store.token = NULL)
            => /\ calls'[c].st = "sent"
               /\ calls'[c].sends = 1
               /\ calls'[c].headers.Authorization = << >>
      ]_vars

C2_Witness ==
    \E c \in CallIds :
       /\ calls[c].st = "sent"
       /\ calls[c].path = "/projects"
       /\ calls[c].headers.Authorization = << >>
       /\ store.token = NULL

\* C3: handling a 401 response removes the token and the cached user from
\* the store, once, and assigns the location /login exactly when the page is
\* not on /login; on /login the location is left alone.
C3_UnauthorizedReaction ==
    [][ \A c \in CallIds :
          Handled401(c)
            => /\ store'.token = NULL
               /\ store'.user = NULL
               /\ calls'[c].clears = 1
               /\ calls'[c].st = "settled"
               /\ pathname' = pathname
               /\ pathname # "/login"
                    => (href' = "/login" /\ calls'[c].redirected)
               /\ pathname = "/login"
                    => (href' = href /\ ~calls'[c].redirected)
      ]_vars

C3_Witness ==
    \E c \in CallIds :
       /\ calls[c].st = "settled"
       /\ calls[c].reply.status = 401
       /\ calls[c].owner = "initAuth"
       /\ pathname = "/login"
       /\ href = NULL
       /\ calls[c].clears = 1

\* C4: handling a non-2xx response other than 401 leaves the store and the
\* location as they were and rejects the call with an error that carries
\* the status and the body of that response.
C4_OtherFailuresPassThrough ==
    [][ \A c \in CallIds :
          (Handled(c) /\ calls'[c].reply.received
             /\ ~Is2xx(calls'[c].reply) /\ calls'[c].reply.status # 401)
            => /\ SessionAndLocationUnchanged
               /\ calls'[c].st = "settled"
               /\ calls'[c].outcome = "rejected"
               /\ calls'[c].error.response.received
               /\ calls'[c].error.response.status = calls'[c].reply.status
               /\ calls'[c].error.response.data = calls'[c].reply.data
      ]_vars

C4_Witness ==
    \E c \in CallIds :
       /\ calls[c].st = "settled"
       /\ calls[c].reply.status = 403
       /\ calls[c].outcome = "rejected"
       /\ calls[c].headers.Authorization = << "Bearer", "tokA" >>
       /\ store.token = "tokA"

\* C5: the token leaves the store only in a logout or in the handling of a
\* 401 response.
C5_TokenRemovedOnlyByLogoutOr401 ==
    [][ (store.token # NULL /\ store'.token = NULL)
          => \/ Logout
             \/ \E c \in CallIds : Handled401(c)
      ]_vars

\* C6: when login() rejects, the store does not hold the access token that
\* this attempt obtained.
C6_RejectedLoginLeavesNoToken ==
    \A k \in Callers :
       (loginPc[k] = "rejected" /\ obtained[k] # NULL)
         => store.token # obtained[k]

\* C7: a 401 response is handled and still rejects the call with the
\* original error.
C7_UnauthorizedStillRejects ==
    [][ \A c \in CallIds :
          Handled401(c)
            => /\ calls'[c].st = "settled"
               /\ calls'[c].outcome = "rejected"
               /\ calls'[c].error = [response |-> calls'[c].reply]
               /\ calls'[c].clears = 1
      ]_vars

C7_Witness ==
    \E c \in CallIds :
       /\ calls[c].st = "settled"
       /\ calls[c].owner = "Page"
       /\ calls[c].reply.status = 401
       /\ calls[c].outcome = "rejected"
       /\ calls[c].redirected

\* C8: when no response reaches the client the call rejects with the
\* original error and the store and the location stay as they were.
C8_TransportFailurePassesThrough ==
    [][ \A c \in CallIds :
          (Handled(c) /\ ~calls'[c].reply.received)
            => /\ SessionAndLocationUnchanged
               /\ calls'[c].st = "settled"
               /\ calls'[c].outcome = "rejected"
               /\ calls'[c].error = [response |-> calls'[c].reply]
               /\ calls'[c].clears = 0
               /\ ~calls'[c].redirected
      ]_vars

C8_Witness ==
    \E c \in CallIds :
       /\ calls[c].st = "settled"
       /\ ~calls[c].reply.received
       /\ calls[c].outcome = "rejected"
       /\ store.token # NULL
       /\ pathname = "/projects"

\* C9: when the 401 handler assigns the location, the store has already been
\* cleared.
C9_ClearedBeforeRedirect ==
    \A c \in CallIds :
       calls[c].redirected
         => /\ calls[c].storeAtRedirect.token = NULL
            /\ calls[c].storeAtRedirect.user = NULL
            /\ calls[c].clears = 1

C9_Witness ==
    \E c \in CallIds :
       /\ calls[c].redirected
       /\ calls[c].headers.Authorization = << "Bearer", "tokA" >>
       /\ href = "/login"
       /\ pathname = "/signup"

\* C10: every call is sent exactly once whatever its outcome; handling a
\* response sends nothing and issues no call, and a 401 leaves no token.
C10_NoRetryNoRefresh ==
    [][ \A c \in CallIds :
          /\ calls'[c].st \in {"unused", "created"} => calls'[c].sends = 0
          /\ calls'[c].st \in {"sent", "settled", "done"} => calls'[c].sends = 1
          /\ Handled(c)
               => /\ calls'[c].st = "settled"
                  /\ nextId' = nextId
                  /\ \A d \in CallIds \ {c} : calls'[d] = calls[d]
          /\ Handled401(c) => store'.token = NULL
      ]_vars

C10_Witness ==
    \E c \in CallIds :
       /\ calls[c].st = "settled"
       /\ calls[c].reply.status = 401
       /\ calls[c].sends = 1
       /\ store.token = NULL
       /\ \A d \in CallIds : calls[d].st \notin {"created", "sent"}

\* C11: the header of a request is decided by the store at the request's own
\* pre-step: once a 401 handler has cleared the store, the requests whose
\* pre-step runs before a new login are sent without Authorization, whatever
\* else is in flight.
C11_TokenReadAtOwnPreStep ==
    [][ \A c \in CallIds :
          PreStepRan(c)
            => /\ calls'[c].st = "sent"
               /\ calls'[c].headers.Authorization =
                    IF store.token = NULL THEN << >>
                    ELSE << "Bearer", store.token >>
      ]_vars

\* A page request sent bare after a 401 ended the session, while an earlier
\* request that carried the token is still in flight and the page still
\* holds its user.
C11_Witness ==
    \E c, d \in CallIds :
       /\ calls[c].st = "sent"
       /\ calls[c].owner = "Page"
       /\ calls[c].headers.Authorization = << >>
       /\ calls[d].st = "sent"
       /\ calls[d].headers.Authorization = << "Bearer", "tokA" >>
       /\ d < c
       /\ href = "/login"
       /\ user # NULL

\* C12: whatever is in flight and in whatever order the responses come, a
\* request settles once, with the outcome of its own response (resolved with
\* it on 2xx, rejected with its error otherwise, also when no response came);
\* settling one request leaves every other request as it was, and a settled
\* request keeps its outcome until its caller has taken it.
C12_EachCallSettlesOnItsOwn ==
    [][ \A c \in CallIds :
          /\ Handled(c)
               => /\ calls'[c].st = "settled"
                  /\ Is2xx(calls'[c].reply)
                       => /\ calls'[c].outcome = "resolved"
                          /\ calls'[c].value = calls'[c].reply
                  /\ ~Is2xx(calls'[c].reply)
                       => /\ calls'[c].outcome = "rejected"
                          /\ calls'[c].error = [response |-> calls'[c].reply]
                  /\ \A d \in CallIds \ {c} : calls'[d] = calls[d]
          /\ (calls[c].st # "settled" /\ calls'[c].st = "settled")
               => Handled(c)
          /\ calls[c].st = "settled"
               => calls'[c] = calls[c] \/ calls'[c].st = "done"
      ]_vars

\* The second of three requests has failed and the third has succeeded while
\* the first is still in flight.
C12_Witness ==
    /\ calls[1].st = "sent"
    /\ calls[2].st = "done"
    /\ calls[3].st = "settled"
    /\ calls[3].outcome = "resolved"
    /\ calls[1].owner = "Page"
    /\ calls[3].owner = "Page"
    /\ href = "/login"

\* C13: the Navbar's logout (the one step that leaves a page under /projects
\* for /login, and the one step that forgets a user) ends with neither key
\* in the store, no in-memory user and the location /login, whatever the
\* store held and whatever is in flight; it touches no request.
C13_LogoutClearsEverything ==
    [][ ( \/ pathname = "/projects" /\ pathname' = "/login"
          \/ user # NULL /\ user' = NULL )
          => /\ store'.token = NULL
             /\ store'.user = NULL
             /\ user' = NULL
             /\ pathname' = "/login"
             /\ calls' = calls
             /\ href' = href
      ]_vars

\* Logged out while a request that carries the token is still in flight.
C13_Witness ==
    /\ pathname = "/login"
    /\ user = NULL
    /\ store.token = NULL
    /\ href = NULL
    /\ initPc = "done"
    /\ \E c \in CallIds :
          /\ calls[c].st = "sent"
          /\ calls[c].owner = "Page"
          /\ calls[c].headers.Authorization = << "Bearer", "tokB" >>

\* C14: once login() has resolved, the store holds the token under 'token'
\* and the profile that login() fetched under 'user'.
C14_LoginPersistsTokenAndUser ==
    \A k \in Callers :
       loginPc[k] = "resolved"
         => /\ store.token = obtained[k]
            /\ store.user # NULL
            /\ store.user = user

\* C15: the request pre-step and the handling of a 2xx response leave the
\* store (and the location) exactly as they were; a 2xx response resolves
\* its call with that response, so the same read issued twice under one
\* token gives two successful calls and an unchanged store.
C15_SuccessPathLeavesStore ==
    [][ \A c \in CallIds :
          /\ PreStepRan(c) => SessionAndLocationUnchanged
          /\ (Handled(c) /\ Is2xx(calls'[c].reply))
               => /\ SessionAndLocationUnchanged
                  /\ calls'[c].outcome = "resolved"
                  /\ calls'[c].value = calls'[c].reply
                  /\ calls'[c].clears = 0
      ]_vars

\* GET /projects issued twice under the token tokA: one has succeeded, the
\* other is in flight with the same header, and the store is as it was found.
C15_Witness ==
    \E c, d \in CallIds :
       /\ c # d
       /\ calls[c].path = "/projects"
       /\ calls[d].path = "/projects"
       /\ calls[c].method = "GET"
       /\ calls[d].method = "GET"
       /\ calls[c].st = "settled"
       /\ calls[c].outcome = "resolved"
       /\ calls[d].st = "sent"
       /\ calls[c].headers.Authorization = << "Bearer", "tokA" >>
       /\ calls[d].headers.Authorization = << "Bearer", "tokA" >>
       /\ store = [token |-> "tokA", user |-> "alice"]

\* C19: in login() the access token of the login call is in the store when
\* the profile request is made, so the request interceptor of that
\* /auth/me call attaches "Bearer <that token>"; login() sets the in-memory
\* user only when it resumes from a profile request that succeeded, and to
\* the profile that request returned.
C19_LoginProfileCarriesNewToken ==
    [][ \A k \in Callers :
          /\ (loginPc[k] = "awaitLogin" /\ loginPc'[k] = "awaitMe")
               => /\ store'.token = calls[loginCall[k]].reply.data
                  /\ calls'[loginCall'[k]].st = "created"
                  /\ calls'[loginCall'[k]].path = "/auth/me"
                  /\ user' = user
          /\ (loginPc[k] = "awaitMe" /\ PreStepRan(loginCall[k]))
               => calls'[loginCall[k]].headers.Authorization
                    = << "Bearer", obtained[k] >>
          /\ (loginPc[k] = "awaitMe" /\ loginPc'[k] # "awaitMe")
               => IF Is2xx(calls[loginCall[k]].reply)
                    THEN user' = calls[loginCall[k]].reply.data
                    ELSE user' = user
          /\ (loginPc[k] = "awaitLogin" /\ loginPc'[k] = "rejected")
               => user' = user /\ store' = store
      ]_vars

\* A login obtained tokB while tokA was the stored token; its profile
\* request is in flight with Bearer tokB and the user is not set yet.
C19_Witness ==
    \E k \in Callers :
       /\ loginPc[k] = "awaitMe"
       /\ obtained[k] = "tokB"
       /\ calls[loginCall[k]].st = "sent"
       /\ calls[loginCall[k]].path = "/auth/me"
       /\ calls[loginCall[k]].headers.Authorization = << "Bearer", "tokB" >>
       /\ store.token = "tokB"
       /\ user = NULL

GetWrappers ==
    { "getCurrentUser", "getProjects", "getProject", "getIssues", "getIssue",
      "getComments" }

\* the verb a wrapper is bound to
Verb(w) ==
    IF w \in GetWrappers THEN "GET"
    ELSE IF w = "updateIssue" THEN "PATCH"
    ELSE IF w = "deleteIssue" THEN "DELETE"
    ELSE "POST"

\* the path template a wrapper is bound to
Template(w) ==
    IF w \in {"signup", "login"} THEN << "auth", w >>
    ELSE IF w = "getCurrentUser" THEN << "auth", "me" >>
    ELSE IF w \in {"getProjects", "createProject"} THEN << "projects" >>
    ELSE IF w = "getProject" THEN << "projects", "{id}" >>
    ELSE IF w = "addMember" THEN << "projects", "{id}", "members" >>
    ELSE IF w \in {"getIssues", "createIssue"}
      THEN << "projects", "{id}", "issues" >>
    ELSE IF w \in {"getIssue", "updateIssue", "deleteIssue"}
      THEN << "issues", "{id}" >>
    ELSE << "issues", "{id}", "comments" >>

Fill(template, id) ==
    [i \in DOMAIN template |-> IF template[i] = "{id}" THEN id ELSE template[i]]

\* The wrapper followed has made exactly one call, with its verb and its
\* path, and a rejection is the client's error as it was thrown.
OneCallErrorUnchanged ==
    /\ Len(view.requests) = 1
    /\ view.requests[1].method = Verb(view.name)
    /\ view.requests[1].path = Fill(Template(view.name), view.id)
    /\ view.st = "rejected" => view.thrown = AxiosError(view.reply)

\* C16 as claimed: every wrapper makes exactly one call with its fixed verb
\* and path template and returns the parsed body of the response verbatim,
\* or rejects with the client's error unchanged.
C16_WrappersReturnBody ==
    view.kind = "wrapper"
      => /\ OneCallErrorUnchanged
         /\ view.st = "resolved" => view.result = view.reply.data

\* C16 as amended: the same, except that issuesAPI.deleteIssue resolves with
\* no value whatever the response body is.
C16_WrappersPassThrough ==
    view.kind = "wrapper"
      => /\ OneCallErrorUnchanged
         /\ view.st = "resolved"
              => view.result = IF view.name = "deleteIssue"
                                 THEN NoBody ELSE view.reply.data

\* updateIssue returned the body of its 200 response.
C16_Witness ==
    /\ view.kind = "wrapper"
    /\ view.name = "updateIssue"
    /\ view.st = "resolved"
    /\ view.reply.status = 200
    /\ view.result = Body("payload", Undefined)
    /\ view.requests = << [ method |-> "PATCH", path |-> << "issues", "7" >>,
                            sends |-> "data",
                            headers |-> [Authorization |-> << "Bearer", "tokA" >>] ] >>

\* The error has a response whose body carries a non-empty detail.
HasDetail(err) ==
    /\ err.response.received
    /\ err.response.data.json
    /\ err.response.data.detail \notin {Undefined, ""}

\* C17: when the action of a form (login, signup, create project, create
\* issue, update issue, delete issue, add member) fails, the message shown
\* is the detail of the response body when the error has a response with a
\* detail, and the handler's static message otherwise (no detail, no body,
\* or no response at all).
C17_FailureMessageShown ==
    (view.kind = "form" /\ view.st = "rejected")
      => view.toast = IF HasDetail(view.thrown)
                        THEN view.thrown.response.data.detail
                        ELSE Generic(view.name)

\* Deleting an issue was refused with 403 and a detail, which is shown.
C17_Witness ==
    /\ view.kind = "form"
    /\ view.name = "deleteIssue"
    /\ view.st = "rejected"
    /\ view.reply.status = 403
    /\ view.reply.data.detail = "Not enough permissions"
    /\ view.toast = "Not enough permissions"

\* The backend has the current user as a maintainer of the project.
TrulyMaintainer ==
    \E m \in view.server.members :
       m.user.id = user /\ m.role = "maintainer"

IsReporter == view.server.reporter.id = user

ProjectShown ==
    view.kind = "project" /\ view.st = "ready" /\ view.project.loaded

\* C18 as claimed: Delete is offered only to a maintainer of the issue's
\* project; Edit is offered exactly when the user is the issue's reporter or
\* a maintainer of its project (so Delete offered implies Edit offered);
\* Add Member is offered exactly when the user is a maintainer.
C18_RoleGating ==
    /\ DeleteOffered => TrulyMaintainer
    /\ HeaderShown => (EditOffered <=> (IsReporter \/ TrulyMaintainer))
    /\ DeleteOffered => EditOffered
    /\ ProjectShown => (AddMemberOffered <=> TrulyMaintainer)

\* The member list of the page is the project's: a fetch of it succeeded.
MembersLoaded == view.members = view.server.members

\* C18 as amended: a maintainer who is not the reporter is offered Edit
\* only once a fetch of the member list by the page has succeeded; until
\* then the list is empty and only the reporter is offered Edit.
C18_RoleGatingAsLoaded ==
    /\ DeleteOffered => TrulyMaintainer
    /\ HeaderShown
         => (EditOffered
               <=> (IsReporter \/ (TrulyMaintainer /\ MembersLoaded)))
    /\ DeleteOffered => EditOffered
    /\ ProjectShown => (AddMemberOffered <=> TrulyMaintainer)

\* A maintainer who did not report the issue is offered Edit and Delete.
C18_Witness ==
    /\ HeaderShown
    /\ ~IsReporter
    /\ TrulyMaintainer
    /\ EditOffered
    /\ DeleteOffered

\* C21: the bootstrap always finishes.  With no token at mount no profile
\* request is made and loading becomes false with the user null; with a
\* token loading stays true while the profile request is in flight and is
\* false once initAuth has resumed from it, whatever its outcome; loading
\* never returns to true.
C21_BootstrapFinishes ==
    /\ [](loading <=> initPc # "done")
    /\ [][ (initPc = "start" /\ initPc' # "start")
             => IF getItem(store, "token") = NULL
                  THEN /\ initPc' = "done"
                       /\ calls' = calls
                       /\ nextId' = nextId
                       /\ user' = NULL
                  ELSE /\ initPc' = "awaitMe"
                       /\ calls'[initCall'].st = "created"
                       /\ calls'[initCall'].path = "/auth/me"
       ]_vars
    /\ [][ ~loading => ~loading' ]_vars
    /\ <>(~loading)

\* The bootstrap found tokA, its profile request succeeded and loading is
\* false with the user set.
C21_Witness ==
    /\ initPc = "done"
    /\ ~loading
    /\ nextId = 2
    /\ calls[1].st = "done"
    /\ calls[1].sends = 1
    /\ user = "alice"
    /\ store.token = "tokA"

\* C22: signup() logs in only after the signup call succeeded.  If the
\* signup request fails, signup() rejects without making a request and
\* without touching the store or the user, and the handling of the failed
\* response puts no value in the store; if the signup request succeeds
\* the login request is made, and signup() rejects when that login() does.
C22_SignupThenLogin ==
    [][ /\ (signupPc = "awaitSignup" /\ signupPc' # "awaitSignup")
             => IF Is2xx(calls[signupCall].reply)
                  THEN /\ signupPc' = "awaitLogin"
                       /\ nextId' = nextId + 1
                       /\ calls'[loginCall'["SignupPage"]].st = "created"
                       /\ calls'[loginCall'["SignupPage"]].path = "/auth/login"
                  ELSE /\ signupPc' = "rejected"
                       /\ nextId' = nextId
                       /\ \A c \in CallIds : calls'[c].st # "created"
                       /\ store' = store
                       /\ user' = user
        /\ (signupPc = "awaitSignup" /\ Handled(signupCall)
              /\ ~Is2xx(calls'[signupCall].reply))
             => /\ store'.token \in {store.token, NULL}
                /\ store'.user \in {store.user, NULL}
                /\ user' = user
        /\ (signupPc = "awaitLogin" /\ signupPc' # "awaitLogin")
             => signupPc' = loginPc["SignupPage"]
      ]_vars

\* The signup request was the only request of the document and it failed:
\* signup() has rejected, the store is empty and the user is null.
C22_Witness ==
    /\ signupPc = "rejected"
    /\ nextId = 2
    /\ calls[1].st = "done"
    /\ calls[1].sends = 1
    /\ loginPc["SignupPage"] = "idle"
    /\ store = [token |-> NULL, user |-> NULL]
    /\ user = NULL

\* C28: the 401 reaction removes whatever token the store holds when the
\* 401 arrives, also when the failed request carried another token (or
\* none): the token and the user key are gone after it.
C28_ClearsWhateverTokenIsStored ==
    [][ \A c \in CallIds :
          (/\ Handled401(c)
           /\ getItem(store, "token") # NULL
           /\ calls[c].headers.Authorization # Bearer(getItem(store, "token")))
            => /\ store'.token = NULL
               /\ store'.user = NULL
      ]_vars

\* The bootstrap profile fetch, sent with tokA, was answered 401 after a
\* login had stored tokB and sent its own profile request with it: tokB is
\* gone from the store.
C28_Witness ==
    \E k \in Callers :
       /\ initPc = "awaitMe"
       /\ calls[initCall].st = "settled"
       /\ calls[initCall].reply.status = 401
       /\ calls[initCall].headers.Authorization = << "Bearer", "tokA" >>
       /\ loginPc[k] = "awaitMe"
       /\ obtained[k] = "tokB"
       /\ calls[loginCall[k]].st = "sent"
       /\ calls[loginCall[k]].headers.Authorization = << "Bearer", "tokB" >>
       /\ store.token = NULL

\* C23: submitting the Signup form with a password shorter than 8
\* characters makes no request at all, sets the error message, leaves the
\* page's loading flag false and leaves the store and the user as they
\* were; nothing is requested afterwards either.
C23_ShortPasswordStaysLocal ==
    [][ /\ (/\ view.kind = "none"
            /\ view'.kind = "form"
            /\ view'.name = "signup"
            /\ view'.pwlen < MinPasswordLength)
             => /\ view'.st = "invalid"
                /\ view'.requests = << >>
                /\ view'.error = PasswordTooShort
                /\ view'.toast = PasswordTooShort
                /\ ~view'.loading
                /\ store' = store
                /\ user' = user
                /\ calls' = calls
        /\ (view.kind = "form" /\ view.st = "invalid")
             => /\ view'.requests = << >>
                /\ store' = store
      ]_vars

\* A password of 7 characters was submitted: the form shows the message,
\* is not loading, and no request was made.
C23_Witness ==
    /\ view.kind = "form"
    /\ view.name = "signup"
    /\ view.pwlen = 7
    /\ view.st = "invalid"
    /\ view.requests = << >>
    /\ view.error = PasswordTooShort
    /\ ~view.loading

AuthFormPending ==
    view.kind = "form" /\ view.name \in AuthForms /\ view.st = "pending"

\* C25: on the Login and Signup pages the route changes only to /projects
\* and only when login() / signup() resolved; when it rejected the route
\* stays and a message is shown; the page's loading flag is true from the
\* submission until the attempt settles and false afterwards.
C25_NavigateOnlyOnSuccess ==
    [][ /\ pathname' # pathname
             => /\ AuthFormPending
                /\ view'.st = "resolved"
                /\ pathname' = "/projects"
        /\ (AuthFormPending /\ view'.st = "resolved")
             => pathname' = "/projects" /\ ~view'.loading
        /\ (AuthFormPending /\ view'.st = "rejected")
             => /\ pathname' = pathname
                /\ view'.toast # ""
                /\ ~view'.loading
        /\ (/\ view.kind = "none"
            /\ view'.kind = "form"
            /\ view'.name \in AuthForms
            /\ view'.st = "pending")
             => view'.loading
        /\ AuthFormPending => view.loading
      ]_vars

\* The login was refused: the page is still /login, not loading, and shows
\* the static message.
C25_Witness ==
    /\ view.kind = "form"
    /\ view.name = "login"
    /\ view.st = "rejected"
    /\ pathname = "/login"
    /\ ~view.loading
    /\ view.toast = "Login failed. Please try again."

CreateFormPending ==
    view.kind = "form" /\ view.name \in CreateForms /\ view.st = "pending"

\* C26: for create project, create issue and add member, a success closes
\* the modal, puts the form back to its initial values and refetches the
\* list or the project; a failure leaves the modal open and the form as
\* typed, and makes no request.
C26_CreateSuccessResetsFailureKeeps ==
    [][ /\ (CreateFormPending /\ view'.st = "resolved")
             => /\ ~view'.modal
                /\ view'.form = InitialForm(view.name)
                /\ Len(view'.requests) = Len(view.requests) + 1
                /\ view'.requests[Len(view'.requests)].method = "GET"
                /\ view'.requests[Len(view'.requests)].path
                     = IF view.name = "createProject" THEN << "projects" >>
                       ELSE IF view.name = "createIssue"
                         THEN << "projects", view.id, "issues" >>
                       ELSE << "projects", view.id >>
        /\ (CreateFormPending /\ view'.st = "rejected")
             => /\ view'.modal
                /\ view'.form = view.form
                /\ view'.form # InitialForm(view.name)
                /\ view'.requests = view.requests
        /\ CreateFormPending => view.modal /\ Len(view.requests) = 1
      ]_vars

\* An issue was created: the modal is closed, the form is back to its
\* initial values and the issues of the project were asked for again.
C26_Witness ==
    /\ view.kind = "form"
    /\ view.name = "createIssue"
    /\ view.st = "resolved"
    /\ ~view.modal
    /\ view.form = << "", "", "medium", "" >>
    /\ Len(view.requests) = 2
    /\ view.requests[2].path = << "projects", view.id, "issues" >>

\* This run of fetchIssue ended in its catch block after the project fetch.
ProjectFetchFailed ==
    /\ view.kind = "issue"
    /\ view.st = "loadingMembers"
    /\ view'.st = "ready"
    /\ view'.loadError

\* This run of fetchIssue ended in its catch block after the issue fetch.
IssueFetchFailed ==
    /\ view.kind = "issue"
    /\ view.st = "loadingIssue"
    /\ view'.st = "ready"

\* C27 as claimed: when the issue fetch succeeds and the project fetch
\* fails the page ends with loading false, the issue set, the error
\* 'Failed to load issue', the members list empty and the edit form at its
\* previous values; when the issue fetch fails no project fetch is made and
\* the issue stays unset.
C27_FetchIssueFailureLeavesEmpty ==
    [][ /\ ProjectFetchFailed
             => /\ ~view'.loading
                /\ view'.issue.loaded
                /\ view'.error = "Failed to load issue"
                /\ view'.members = {}
                /\ view'.editData = view.editData
        /\ IssueFetchFailed
             => /\ Len(view'.requests) = 1
                /\ ~view'.issue.loaded
      ]_vars

\* C27 as amended: the members list, like the edit form, is left at its
\* previous (initially empty) value, and after a failed issue fetch the
\* issue is left as it was (unset on the first load); the rest as claimed.
C27_FetchIssueFailureLeavesPrevious ==
    [][ /\ ProjectFetchFailed
             => /\ ~view'.loading
                /\ view'.issue.loaded
                /\ view'.error = "Failed to load issue"
                /\ view'.members = view.members
                /\ view'.editData = view.editData
        /\ IssueFetchFailed
             => /\ Len(view'.requests) = 1
                /\ view'.requests = view.requests
                /\ view'.issue = view.issue
                /\ view'.members = view.members
                /\ ~view'.loading
                /\ view'.error = "Failed to load issue"
        /\ (view.kind = "none" /\ view'.kind = "issue")
             => /\ ~view'.issue.loaded
                /\ view'.members = {}
                /\ view'.editData = "empty"
                /\ view'.loading
      ]_vars

\* First load: the issue arrived, the project fetch failed.
C27_Witness ==
    /\ view.kind = "issue"
    /\ view.st = "ready"
    /\ view.loadError
    /\ view.issue.loaded
    /\ ~view.loading
    /\ view.error = "Failed to load issue"
    /\ view.members = {}
    /\ view.server.members # {}
    /\ view.editData = "empty"
    /\ Len(view.requests) = 2

\* the entries of the filters whose value is neither '' nor null
Kept(filters) ==
    { << k, filters[k] >> :
        k \in {x \in DOMAIN filters : filters[x] \notin {"", NULL}} }

\* filters of every shape, null values included
FilterSpace ==
    [ q : {"", NULL, "bug"}, status : {"", "open"}, priority : {"", NULL},
      assignee_id : {"", NULL, "alice"}, sort : {"created_at", ""},
      page : {"1"}, page_size : {"20"} ]

\* C24: every getIssues request of the issues list carries exactly the
\* filter entries whose value is neither the empty string nor null, each
\* with its value (so sort, page and page_size are always sent and an empty
\* q, status, priority or assignee_id is left out), and the issues shown
\* are the returned list as it came.
C24_FiltersForwarded ==
    /\ \A f \in FilterSpace : CleanParams(f) = Kept(f)
    /\ view.kind = "issues"
         => /\ Len(view.requests) = Len(view.fetches)
            /\ view.fetches[Len(view.fetches)].params = Kept(view.filters)
            /\ \A n \in DOMAIN view.fetches :
                  LET P == view.fetches[n].params
                  IN /\ view.requests[n].method = "GET"
                     /\ view.requests[n].sends = "params"
                     /\ \E v \in FilterValues("sort") : << "sort", v >> \in P
                     /\ << "page", "1" >> \in P
                     /\ << "page_size", "20" >> \in P
                     /\ \A e \in P : e[2] # "" /\ e[2] # NULL
                     /\ \A k \in {"q", "status", "priority"} :
                           << k, "" >> \notin P
                     /\ \A e \in P : e[1] # "assignee_id"
            /\ view.shown.from # 0
                 => view.shown.list = view.fetches[view.shown.from].list

\* The search term 'bug' was typed: the request carries q, sort, page and
\* page_size, and its answer is shown.
C24_Witness ==
    /\ view.kind = "issues"
    /\ Len(view.fetches) = 2
    /\ view.filters.q = "bug"
    /\ view.fetches[2].params
         = { << "q", "bug" >>, << "sort", "created_at" >>,
             << "page", "1" >>, << "page_size", "20" >> }
    /\ view.fetches[2].st = "resolved"
    /\ view.shown = [from |-> 2, list |-> << "i1", "i2" >>]

\* C29: on the issues list, once all the getIssues requests made have
\* settled (successfully), the issues shown are those of the request made
\* last, and the loading flag is true whenever one of the requests is still
\* in flight.
C29_LastRequestWins ==
    view.kind = "issues"
      => /\ (\E n \in DOMAIN view.fetches : view.fetches[n].st = "inflight")
              => view.loading
         /\ (\A n \in DOMAIN view.fetches : view.fetches[n].st = "resolved")
              => view.shown.from = Len(view.fetches)

====
